---- MODULE Spec2Model ----
(***************************************************************************)
(* The two image scripts of the repository as one state machine.           *)
(*                                                                         *)
(*   download_stock_images.py   download_image (GET, status check,         *)
(*                              directory bootstrap, binary write, one     *)
(*                              try/except around all of it) and the loop  *)
(*                              of download_stock_images over `images`.    *)
(*   download_service_images.py the module-level os.makedirs and the       *)
(*                              nested loop over IMAGE_URLS that writes a   *)
(*                              text placeholder per URL (no GET, no        *)
(*                              try/except).                               *)
(*                                                                         *)
(* The filesystem (the output directory and the files in it) is the only   *)
(* state that outlives a run; a behaviour runs one of the two scripts up   *)
(* to MaxRuns times over the same filesystem.                              *)
(***************************************************************************)
EXTENDS Integers, Sequences, FiniteSets, TLC

(* ------------------------------ bounds --------------------------------- *)
\* how many entries of the `images` dict (in insertion order) a run iterates
NumImages == 2
\* how many categories of IMAGE_URLS (in insertion order) a run iterates
NumCategories == 2
\* longest response body, in bytes
MaxBodyLen == 1
\* how many times the script is run over the same filesystem
MaxRuns == 2

(* --------------------------- the data tables --------------------------- *)
\* download_stock_images: images.items(), in insertion order (filename, url)
images_items ==
    << <<"yacht-hero.jpg", "https://images.unsplash.com/photo-1567899378494-47b22a2ae96a?w=1200&q=80">>,
       <<"featured-yacht.jpg", "https://images.unsplash.com/photo-1569263979104-865ab7cd8d13?w=800&q=80">>,
       <<"diving.jpg", "https://images.unsplash.com/photo-1544551763-46a013bb70d5?w=800&q=80">>,
       <<"resort.jpg", "https://images.unsplash.com/photo-1582719478250-c89cae4dc85b?w=800&q=80">> >>

\* the entries of images_items a run of the model iterates
images == SubSeq(images_items, 1, IF NumImages < Len(images_items) THEN NumImages ELSE Len(images_items))

\* download_service_images: IMAGE_URLS.items(), in insertion order (category, urls)
IMAGE_URLS_items ==
    << <<"water_skiing", <<"service-addons/water-skiing-1.jpg", "service-addons/water-skiing-2.jpg">> >>,
       <<"flyboard", <<"service-addons/flyboard-1.jpg", "service-addons/flyboard-2.jpg">> >>,
       <<"dining", <<"service-addons/private-dining-1.jpg", "service-addons/private-dining-2.jpg">> >>,
       <<"catering", <<"service-addons/catering-1.jpg", "service-addons/catering-2.jpg">> >> >>

\* the entries of IMAGE_URLS_items a run of the model iterates
IMAGE_URLS == SubSeq(IMAGE_URLS_items, 1, IF NumCategories < Len(IMAGE_URLS_items) THEN NumCategories ELSE Len(IMAGE_URLS_items))

\* public_dir = "client/public"
public_dir == "client/public"

\* the directory of os.makedirs("temp_service_images", exist_ok=True)
service_dir == "temp_service_images"

(* ----------------------- formatting and paths -------------------------- *)
\* str(n) of the f-strings, for the indices the tables produce
Str(n) == CASE n = 0 -> "0" [] n = 1 -> "1" [] n = 2 -> "2" [] n = 3 -> "3" [] OTHER -> "?"

\* the path of a directory itself
DirPath(d) == [dir |-> d, name |-> <<>>]

\* os.path.join(public_dir, filename): the directory and the name in it
os_path_join(d, filename) == [dir |-> d, name |-> <<filename>>]

\* f"temp_service_images/{category}_{i+1}.jpg", i the 0-based enumerate index
ZeroBasedFilename(category, i) == [dir |-> service_dir, name |-> <<category, "_", Str(i), ".jpg">>]
Filename(category, i) == [dir |-> service_dir, name |-> <<category, "_", Str(i + 1), ".jpg">>]

\* f"Placeholder for {category} image {i+1}"
Placeholder(category, i) == <<"Placeholder for ", category, " image ", Str(i + 1)>>

(* --------------------------- the environment --------------------------- *)
\* status codes a GET may answer with: 200, another 2xx, a client error
Statuses == {200, 204, 404}

\* response.content: every byte string of at most MaxBodyLen bytes
Bodies == UNION { [1..n -> {7}] : n \in 0..MaxBodyLen }

\* exceptions requests.get raises
TransportErrors == {"ConnectionError", "Timeout"}

\* what may be at the output directory's path
DirStates == {"absent", "dir", "file"}

\* the value of a name that is not bound (response before the GET, no exception)
None == [status_code |-> 0, content |-> <<>>]

(* ------------------------------ the state ------------------------------ *)
VARIABLES
    script,     \* which script this behaviour runs: "stock" or "service"
    run,        \* the number of the current run of the script, from 1
    pc,         \* the statement the interpreter is at
    item,       \* stock: 1-based position in images.items()
    cat,        \* service: 1-based position in IMAGE_URLS.items()
    i,          \* service: the enumerate index of the inner loop, from 0
    response,   \* stock: the value of `response` in download_image
    exc,        \* stock: the exception raised inside the try, or "none"
    outdir,     \* filesystem: what is at the output directory's path
    files,      \* filesystem: path -> content, for the files of the output directory
    fh,         \* the paths of the files currently open for writing
    log,        \* standard output of the current run, a sequence of lines
    gets,       \* the URLs of the GETs issued in the current run, in order
    calls,      \* the paths the operation was invoked for in the current run, in order
    fsops,      \* the filesystem calls that succeeded in the current run, in order
    before,     \* `files` as it was when the current operation was invoked
    streak,     \* path -> number of latest invocations in a row that saved it
    exitCode    \* the process exit status of the current run, -1 while it runs

vars == <<script, run, pc, item, cat, i, response, exc, outdir, files, fh, log,
          gets, calls, fsops, before, streak, exitCode>>

\* the destination paths of a script, in table order (every category of
\* IMAGE_URLS lists two urls)
StockPaths == [k \in 1..Len(images) |-> os_path_join(public_dir, images[k][1])]
ServicePaths ==
    [k \in 1..(2 * Len(IMAGE_URLS)) |-> Filename(IMAGE_URLS[(k + 1) \div 2][1], (k + 1) % 2)]
Paths(s) == IF s = "stock" THEN StockPaths ELSE ServicePaths
PathSet(s) == {Paths(s)[k] : k \in 1..Len(Paths(s))}

\* content a file may hold before the first run
StaleContent(s) == IF s = "stock" THEN <<0, 0, 0, 0>> ELSE <<"stale">>

\* the filename and url of the current stock item, and its path
filename == images[item][1]
url == images[item][2]
filepath == os_path_join(public_dir, filename)

\* the category, urls and target of the current service item
category == IMAGE_URLS[cat][1]
urls == IMAGE_URLS[cat][2]
svc_filename == Filename(category, i)

(* ------------------------- filesystem operations ----------------------- *)
\* os.path.exists(path): true of a directory and of a file alike
os_path_exists(d) == d # "absent"

\* the test of `if not os.path.exists(public_dir)`
AlwaysMakedirs(d) == TRUE
NeedMakedirs(d) == ~os_path_exists(d)

\* os.makedirs(path, exist_ok): the error it raises in state d, "none" if none;
\* denied: the OS refuses the creation (permissions, read-only filesystem)
makedirs_error(d, exist_ok, denied) ==
    CASE d = "dir" /\ exist_ok -> "none"
      [] d # "absent" -> "FileExistsError"
      [] denied -> "PermissionError"
      [] OTHER -> "none"

\* open(path, 'wb') / open(path, 'w'): the error it raises, "none" if none
open_error(d, denied) ==
    CASE d = "absent" -> "FileNotFoundError"
      [] d = "file" -> "NotADirectoryError"
      [] denied -> "PermissionError"
      [] OTHER -> "none"

\* the files after a successful open for writing: created or truncated
OpenAppend(fs, path) == IF path \in DOMAIN fs THEN fs ELSE (path :> <<>>) @@ fs
OpenTruncate(fs, path) == (path :> <<>>) @@ fs

\* the files after f.write(data) put the first n items of data at the end
WriteDropsLast(fs, path, data, n) ==
    (path :> (fs[path] \o SubSeq(data, 1, IF n > 0 THEN n - 1 ELSE 0))) @@ fs
FileWrite(fs, path, data, n) == (path :> (fs[path] \o SubSeq(data, 1, n))) @@ fs

\* the test of `if response.status_code == 200`
StatusAny2xx(r) == r.status_code \in 200..299
StatusBelow500(r) == r.status_code < 500
StatusOk(r) == r.status_code = 200

(* -------------------------------- lines -------------------------------- *)
\* a filesystem call that succeeded
FsOp(op, path) == [op |-> op, path |-> path]

Line(kind, what) == [kind |-> kind, what |-> what]

\* the lines of `log` of the given kind about `what`
Lines(kind, what) == {n \in 1..Len(log) : log[n] = Line(kind, what)}

(* ------------------------------- Init ---------------------------------- *)
Init ==
    /\ script \in {"stock", "service"}
    /\ run = 1
    /\ pc = IF script = "stock" THEN "loop" ELSE "makedirs"
    /\ item = 1
    /\ cat = 1
    /\ i = 0
    /\ response = None
    /\ exc = "none"
    /\ outdir \in DirStates
    /\ \E present \in SUBSET PathSet(script) :
          /\ outdir # "dir" => present = {}
          /\ files = [p \in present |-> StaleContent(script)]
    /\ fh = {}
    /\ log = <<>>
    /\ gets = <<>>
    /\ calls = <<>>
    /\ fsops = <<>>
    /\ before = files
    /\ streak = [p \in PathSet(script) |-> 0]
    /\ exitCode = -1

(* ----------------------- download_stock_images.py ---------------------- *)
\* for filename, url in images.items(): print(...); download_image(url, filename)
StockNext ==
    /\ script = "stock" /\ pc = "loop" /\ item <= Len(images)
    /\ log' = Append(log, Line("Downloading", filename))
    /\ calls' = Append(calls, filepath)
    /\ before' = files
    /\ response' = None
    /\ exc' = "none"
    /\ pc' = "get"
    /\ UNCHANGED <<script, run, item, cat, i, outdir, files, fh, gets, fsops, streak, exitCode>>

\* the loop is exhausted: download_stock_images returns, the process exits 0
StockExit ==
    /\ script = "stock" /\ pc = "loop" /\ item > Len(images)
    /\ pc' = "done"
    /\ exitCode' = 0
    /\ UNCHANGED <<script, run, item, cat, i, response, exc, outdir, files, fh, log,
                   gets, calls, fsops, before, streak>>

\* response = requests.get(url): a response, or a transport exception
RequestsGet ==
    /\ script = "stock" /\ pc = "get"
    /\ gets' = Append(gets, url)
    /\ \/ \E st \in Statuses, body \in Bodies :
             /\ response' = [status_code |-> st, content |-> body]
             /\ pc' = "check"
             /\ exc' = exc
       \/ \E e \in TransportErrors :
             /\ exc' = e
             /\ pc' = "except"
             /\ response' = response
    /\ UNCHANGED <<script, run, item, cat, i, outdir, files, fh, log, calls, fsops,
                   before, streak, exitCode>>

\* if response.status_code == 200: ... if not os.path.exists(public_dir): ...
\* any other status falls through the try: download_image returns
CheckStatus ==
    /\ script = "stock" /\ pc = "check"
    /\ IF StatusOk(response)
          THEN /\ pc' = IF NeedMakedirs(outdir) THEN "mkdir" ELSE "open"
               /\ UNCHANGED <<item, streak>>
          ELSE /\ pc' = "loop"
               /\ item' = item + 1
               /\ streak' = [streak EXCEPT ![filepath] = 0]
    /\ UNCHANGED <<script, run, cat, i, response, exc, outdir, files, fh, log, gets,
                   calls, fsops, before, exitCode>>

\* os.makedirs(public_dir)
StockMakedirs ==
    /\ script = "stock" /\ pc = "mkdir"
    /\ \E denied \in BOOLEAN :
          LET err == makedirs_error(outdir, FALSE, denied) IN
             IF err = "none"
                THEN /\ outdir' = "dir"
                     /\ fsops' = Append(fsops, FsOp("makedirs", DirPath(public_dir)))
                     /\ pc' = "open"
                     /\ exc' = exc
                ELSE /\ outdir' = outdir
                     /\ fsops' = fsops
                     /\ pc' = "except"
                     /\ exc' = err
    /\ UNCHANGED <<script, run, item, cat, i, response, files, fh, log, gets, calls,
                   before, streak, exitCode>>

\* with open(filepath, 'wb') as f:
StockOpen ==
    /\ script = "stock" /\ pc = "open"
    /\ \E denied \in BOOLEAN :
          LET err == open_error(outdir, denied) IN
             IF err = "none"
                THEN /\ files' = OpenTruncate(files, filepath)
                     /\ fh' = fh \cup {filepath}
                     /\ fsops' = Append(fsops, FsOp("open", filepath))
                     /\ pc' = "write"
                     /\ exc' = exc
                ELSE /\ pc' = "except"
                     /\ exc' = err
                     /\ UNCHANGED <<files, fh, fsops>>
    /\ UNCHANGED <<script, run, item, cat, i, response, outdir, log, gets, calls,
                   before, streak, exitCode>>

\* f.write(response.content), then the with block closes f; the write may
\* fail (disk full, I/O error) after any proper prefix reached the file
StockWrite ==
    /\ script = "stock" /\ pc = "write"
    /\ \/ /\ files' = FileWrite(files, filepath, response.content, Len(response.content))
          /\ pc' = "saved"
          /\ exc' = exc
       \/ \E n \in 0..(Len(response.content) - 1) :
             /\ files' = FileWrite(files, filepath, response.content, n)
             /\ pc' = "except"
             /\ exc' = "OSError"
    /\ fh' = fh \ {filepath}
    /\ UNCHANGED <<script, run, item, cat, i, response, outdir, log, gets, calls,
                   fsops, before, streak, exitCode>>

\* print(f"Successfully saved {filename}"); download_image returns
StockSaved ==
    /\ script = "stock" /\ pc = "saved"
    /\ log' = Append(log, Line("Successfully saved", filename))
    /\ streak' = [streak EXCEPT ![filepath] = @ + 1]
    /\ item' = item + 1
    /\ pc' = "loop"
    /\ UNCHANGED <<script, run, cat, i, response, exc, outdir, files, fh, gets, calls,
                   fsops, before, exitCode>>

\* an except clause that tries the GET once more after a transport error
RetryingExcept ==
    /\ script = "stock" /\ pc = "except"
    /\ log' = Append(log, Line("Error downloading", <<filename, exc>>))
    /\ streak' = [streak EXCEPT ![filepath] = 0]
    /\ IF exc \in TransportErrors /\ Len(gets) < Len(calls) + 1
          THEN pc' = "get" /\ item' = item
          ELSE pc' = "loop" /\ item' = item + 1
    /\ UNCHANGED <<script, run, cat, i, response, exc, outdir, files, fh, gets, calls,
                   fsops, before, exitCode>>

\* an except clause that swallows the exception without a message
SilentExcept ==
    /\ script = "stock" /\ pc = "except"
    /\ streak' = [streak EXCEPT ![filepath] = 0]
    /\ item' = item + 1
    /\ pc' = "loop"
    /\ UNCHANGED <<script, run, cat, i, response, exc, outdir, files, fh, log, gets,
                   calls, fsops, before, exitCode>>

\* except Exception as e: print(f"Error downloading {filename}: {str(e)}")
StockExcept ==
    /\ script = "stock" /\ pc = "except"
    /\ log' = Append(log, Line("Error downloading", <<filename, exc>>))
    /\ streak' = [streak EXCEPT ![filepath] = 0]
    /\ item' = item + 1
    /\ pc' = "loop"
    /\ UNCHANGED <<script, run, cat, i, response, exc, outdir, files, fh, gets, calls,
                   fsops, before, exitCode>>

(* ---------------------- download_service_images.py --------------------- *)
\* an exception nothing catches: traceback, the interpreter exits 1
Crash(e) ==
    /\ pc' = "crashed"
    /\ exc' = e
    /\ exitCode' = 1

\* os.makedirs("temp_service_images", exist_ok=True)
ServiceMakedirs ==
    /\ script = "service" /\ pc = "makedirs"
    /\ \E denied \in BOOLEAN :
          LET err == makedirs_error(outdir, TRUE, denied) IN
             IF err = "none"
                THEN /\ outdir' = "dir"
                     /\ fsops' = Append(fsops, FsOp("makedirs", DirPath(service_dir)))
                     /\ pc' = "category"
                     /\ UNCHANGED <<exc, exitCode>>
                ELSE /\ outdir' = outdir
                     /\ fsops' = fsops
                     /\ Crash(err)
    /\ UNCHANGED <<script, run, item, cat, i, response, files, fh, log, gets, calls,
                   before, streak>>

\* for category, urls in IMAGE_URLS.items(): print(f"Downloading {category} images...")
ServiceCategory ==
    /\ script = "service" /\ pc = "category" /\ cat <= Len(IMAGE_URLS)
    /\ log' = Append(log, Line("Downloading images", category))
    /\ i' = 0
    /\ pc' = "url"
    /\ UNCHANGED <<script, run, item, cat, response, exc, outdir, files, fh, gets, calls,
                   fsops, before, streak, exitCode>>

\* the outer loop is exhausted: the two closing prints, the process exits 0
ServiceExit ==
    /\ script = "service" /\ pc = "category" /\ cat > Len(IMAGE_URLS)
    /\ log' = Append(log, Line("Placeholder images created", service_dir))
    /\ pc' = "done"
    /\ exitCode' = 0
    /\ UNCHANGED <<script, run, item, cat, i, response, exc, outdir, files, fh, gets,
                   calls, fsops, before, streak>>

\* for i, url in enumerate(urls): filename = ...; print(f"  Downloading {url} to {filename}")
ServiceUrl ==
    /\ script = "service" /\ pc = "url" /\ i < Len(urls)
    /\ log' = Append(log, Line("Downloading to", <<urls[i + 1], svc_filename>>))
    /\ calls' = Append(calls, svc_filename)
    /\ before' = files
    /\ pc' = "open"
    /\ UNCHANGED <<script, run, item, cat, i, response, exc, outdir, files, fh, gets,
                   fsops, streak, exitCode>>

\* the inner loop is exhausted: on to the next category
ServiceUrlsDone ==
    /\ script = "service" /\ pc = "url" /\ i >= Len(urls)
    /\ cat' = cat + 1
    /\ pc' = "category"
    /\ UNCHANGED <<script, run, item, i, response, exc, outdir, files, fh, log, gets,
                   calls, fsops, before, streak, exitCode>>

\* with open(filename, "w") as f:
ServiceOpen ==
    /\ script = "service" /\ pc = "open"
    /\ \E denied \in BOOLEAN :
          LET err == open_error(outdir, denied) IN
             IF err = "none"
                THEN /\ files' = OpenTruncate(files, svc_filename)
                     /\ fh' = fh \cup {svc_filename}
                     /\ fsops' = Append(fsops, FsOp("open", svc_filename))
                     /\ pc' = "write"
                     /\ UNCHANGED <<exc, exitCode, streak>>
                ELSE /\ Crash(err)
                     /\ streak' = [streak EXCEPT ![svc_filename] = 0]
                     /\ UNCHANGED <<files, fh, fsops>>
    /\ UNCHANGED <<script, run, item, cat, i, response, outdir, log, gets, calls, before>>

\* f.write(f"Placeholder for {category} image {i+1}"), then the with block closes f
ServiceWrite ==
    /\ script = "service" /\ pc = "write"
    /\ LET text == Placeholder(category, i) IN
          \/ /\ files' = FileWrite(files, svc_filename, text, Len(text))
             /\ pc' = "created"
             /\ UNCHANGED <<exc, exitCode, streak>>
          \/ \E n \in 0..(Len(text) - 1) :
                /\ files' = FileWrite(files, svc_filename, text, n)
                /\ Crash("OSError")
                /\ streak' = [streak EXCEPT ![svc_filename] = 0]
    /\ fh' = fh \ {svc_filename}
    /\ UNCHANGED <<script, run, item, cat, i, response, outdir, log, gets, calls,
                   fsops, before>>

\* print(f"  Successfully created placeholder for {filename}"); sleep(0.1)
ServiceCreated ==
    /\ script = "service" /\ pc = "created"
    /\ log' = Append(log, Line("Successfully created placeholder", svc_filename))
    /\ streak' = [streak EXCEPT ![svc_filename] = @ + 1]
    /\ i' = i + 1
    /\ pc' = "url"
    /\ UNCHANGED <<script, run, item, cat, response, exc, outdir, files, fh, gets, calls,
                   fsops, before, exitCode>>

(* ------------------------------ the runs ------------------------------- *)
\* the process has ended
Terminated == pc \in {"done", "crashed"}

\* the script is started again: a new process over the filesystem as it was left
Rerun ==
    /\ Terminated /\ run < MaxRuns
    /\ run' = run + 1
    /\ pc' = IF script = "stock" THEN "loop" ELSE "makedirs"
    /\ item' = 1
    /\ cat' = 1
    /\ i' = 0
    /\ response' = None
    /\ exc' = "none"
    /\ log' = <<>>
    /\ gets' = <<>>
    /\ calls' = <<>>
    /\ fsops' = <<>>
    /\ before' = files
    /\ exitCode' = -1
    /\ UNCHANGED <<script, outdir, files, fh, streak>>

Next ==
    \/ StockNext
    \/ StockExit
    \/ RequestsGet
    \/ CheckStatus
    \/ StockMakedirs
    \/ StockOpen
    \/ StockWrite
    \/ StockSaved
    \/ StockExcept
    \/ ServiceMakedirs
    \/ ServiceCategory
    \/ ServiceExit
    \/ ServiceUrl
    \/ ServiceUrlsDone
    \/ ServiceOpen
    \/ ServiceWrite
    \/ ServiceCreated
    \/ Rerun

Spec == Init /\ [][Next]_vars

(* ======================================================================= *)
(* The properties                                                          *)
(* ======================================================================= *)
\* download_image has returned for the entry it was last invoked for
Returned == script = "stock" /\ pc \in {"loop", "done"} /\ calls # <<>>

\* the path, filename and url of the entry the operation was last invoked for
lastpath == calls[Len(calls)]
lastname == images[Len(calls)][1]
lasturl == images[Len(calls)][2]

\* the GET of the last invocation was answered (with any status)
Answered == response # None

\* path p is as it was when the last operation was invoked
Untouched(p) ==
    /\ p \in DOMAIN files <=> p \in DOMAIN before
    /\ p \in DOMAIN files => files[p] = before[p]

\* how often path p was opened for writing in the current run
Opens(p) == Cardinality({n \in 1..Len(fsops) : fsops[n] = FsOp("open", p)})

\* how often url u was requested in the current run
Gets(u) == Cardinality({n \in 1..Len(gets) : gets[n] = u})

\* the lines of the log that report an outcome for the stock file `name`
SavedLines(name) == Lines("Successfully saved", name)
ErrorLines(name) ==
    {n \in 1..Len(log) : log[n].kind = "Error downloading" /\ log[n].what[1] = name}

\* the number of outcomes (success or failure) reported for the stock file `name`
Outcomes(name) == Cardinality(SavedLines(name)) + Cardinality(ErrorLines(name))

\* the (category index, 0-based url index) pairs of the service table
ServiceEntries ==
    UNION {{<<c, j>> : j \in 0..(Len(IMAGE_URLS[c][2]) - 1)} : c \in 1..Len(IMAGE_URLS)}

(* ------------------------------- C1 ------------------------------------ *)
\* C1 as stated: whenever the GET returned 200, after the call the file at
\* the destination holds exactly the response body (and it is the one file
\* the call wrote).
C1_Original ==
    (Returned /\ Answered /\ response.status_code = 200) =>
        /\ lastpath \in DOMAIN files
        /\ files[lastpath] = response.content

\* C1 amended: whenever the GET returned 200 and neither the directory
\* creation nor the open nor the write raised, after the call the file at
\* the destination holds exactly the response body, the call opened that
\* one file once, and every other file is as it was.
C1_WritesBody ==
    (Returned /\ Answered /\ response.status_code = 200 /\ exc = "none") =>
        /\ lastpath \in DOMAIN files
        /\ files[lastpath] = response.content
        /\ Opens(lastpath) = 1
        /\ fsops[Len(fsops)] = FsOp("open", lastpath)
        /\ \A p \in PathSet("stock") \ {lastpath} : Untouched(p)

\* a 200 response with a non-empty body was saved while another file existed
C1_Witness ==
    /\ Returned /\ Answered /\ response.status_code = 200 /\ exc = "none"
    /\ response.content # <<>>
    /\ files[lastpath] = response.content
    /\ \E p \in DOMAIN files : p # lastpath

(* ------------------------------- C2 ------------------------------------ *)
\* C2 as stated: for every success status 200..299 the full body is written
\* to the destination (here even granting that no filesystem call failed).
C2_Original ==
    (Returned /\ Answered /\ response.status_code \in 200..299 /\ exc = "none") =>
        /\ lastpath \in DOMAIN files
        /\ files[lastpath] = response.content

\* C2 amended: only status 200 counts as success. With status 200 and no
\* filesystem error the full body replaces whatever the destination held;
\* with any other 2xx status nothing is written and no exception is raised.
C2_Only200 ==
    (Returned /\ Answered) =>
        /\ (response.status_code = 200 /\ exc = "none") =>
              /\ lastpath \in DOMAIN files
              /\ files[lastpath] = response.content
        /\ response.status_code \in 201..299 =>
              /\ files = before
              /\ Opens(lastpath) = 0
              /\ exc = "none"

\* a 200 response replaced a longer file that was already there
C2_Witness200 ==
    /\ Returned /\ Answered /\ response.status_code = 200 /\ exc = "none"
    /\ lastpath \in DOMAIN before
    /\ Len(before[lastpath]) > Len(response.content)
    /\ files[lastpath] = response.content

(* ------------------------------- C3 ------------------------------------ *)
\* C3: whenever the GET returned a status outside 200..299, the call has
\* created or modified no file, has opened none, raised nothing, reported no
\* error, and the loop stands at the next pair of the table.
C3_NonSuccessSkips ==
    (Returned /\ Answered /\ response.status_code \notin 200..299) =>
        /\ files = before
        /\ Opens(lastpath) = 0
        /\ exc = "none"
        /\ ErrorLines(lastname) = {}
        /\ exitCode \in {-1, 0}
        /\ item = Len(calls) + 1

\* a 404 was skipped with entries of the table still to come
C3_Witness ==
    /\ Returned /\ Answered /\ response.status_code = 404
    /\ pc = "loop" /\ item <= Len(images)
    /\ response.content # <<>>

(* ------------------------------- C4 ------------------------------------ *)
\* C4: whenever requests.get raised a transport error, after the call no
\* file was written, exactly one error line names the item and the error,
\* the item's URL was requested once and not again, and the loop stands at
\* the next item; and at no time has a URL been requested twice in a run.
C4_TransportError ==
    /\ (Returned /\ exc \in TransportErrors) =>
          /\ files = before
          /\ Opens(lastpath) = 0
          /\ Lines("Error downloading", <<lastname, exc>>) # {}
          /\ Cardinality(ErrorLines(lastname)) = 1
          /\ Gets(lasturl) = 1
          /\ Len(gets) = Len(calls)
          /\ item = Len(calls) + 1
    /\ script = "stock" => \A k \in 1..Len(images) : Gets(images[k][2]) <= 1

\* a transport error on an entry that is not the last one
C4_Witness ==
    /\ Returned /\ exc \in TransportErrors
    /\ pc = "loop" /\ item <= Len(images)

(* ------------------------------- C5 ------------------------------------ *)
\* C5: no error on an item is fatal, in either script: whenever the process
\* has ended after taking up at least one item, it has exited 0 and the
\* operation was invoked for every entry of the table.
C5_NoErrorFatal ==
    (Terminated /\ calls # <<>>) =>
        /\ exitCode = 0
        /\ Len(calls) = Len(Paths(script))

(* ------------------------------- C6 ------------------------------------ *)
\* C6: when a write completes on a destination that the previous invocation
\* for it had saved too, the file holds exactly what this call wrote: no
\* byte of the earlier content remains, and writing the same content again
\* leaves the file as it was.
C6_Overwrite ==
    /\ (script = "stock" /\ pc = "saved" /\ streak[filepath] >= 1) =>
          /\ files[filepath] = response.content
          /\ Len(files[filepath]) = Len(response.content)
          /\ before[filepath] = response.content => files[filepath] = before[filepath]
    /\ (script = "service" /\ pc = "created" /\ streak[svc_filename] >= 1) =>
          /\ files[svc_filename] = Placeholder(category, i)
          /\ files[svc_filename] = before[svc_filename]

\* a second save with a body shorter than the body saved before
C6_Witness ==
    /\ script = "stock" /\ pc = "saved" /\ streak[filepath] >= 1
    /\ Len(before[filepath]) > Len(response.content)
    /\ before[filepath] \in Bodies

(* ------------------------------- C7 ------------------------------------ *)
\* C7: no open for writing is attempted while nothing is at the directory's
\* path (a missing directory has been created by then), every open that
\* succeeded was made with the directory in place, and no invocation fails
\* because the directory already exists: FileExistsError is never raised in
\* download_image, and in the service script only when the path is a file.
C7_DirectoryBootstrap ==
    /\ pc \in {"open", "write"} => outdir # "absent"
    /\ pc = "write" => outdir = "dir"
    /\ script = "stock" => exc # "FileExistsError"
    /\ (script = "service" /\ exc = "FileExistsError") => outdir = "file"
    /\ \A n \in 1..Len(fsops) :
          fsops[n].op = "makedirs" => n = 1

\* the directory was created by the run's first write, and a later
\* invocation, made with the directory present, wrote its file too
C7_Witness ==
    /\ script = "stock"
    /\ Len(fsops) >= 3
    /\ fsops[1].op = "makedirs"
    /\ fsops[2].op = "open" /\ fsops[3].op = "open"
    /\ exc = "none"

InTableOrder ==
    /\ Len(calls) <= Len(Paths(script))
    /\ \A n \in 1..Len(calls) : calls[n] = Paths(script)[n]

\* at most one operation is in progress, and it is the latest one invoked
NoOverlap == \A p \in fh : calls # <<>> /\ p = lastpath /\ Cardinality(fh) = 1

\* C10: the entries are processed one at a time in table order, no
\* destination is opened for writing by more than one call of a run, and
\* when the process has ended every entry of the table was invoked exactly
\* once.
C10_Sequential ==
    /\ InTableOrder
    /\ NoOverlap
    /\ \A p \in PathSet(script) : Opens(p) <= 1
    /\ Terminated => calls = Paths(script)

====
